---- MODULE Spec2Model ----
(***************************************************************************)
(* The agent adapters of aiworkflow: OpenCodeAdapter (agents/opencode.py)  *)
(* and ClaudeCodeAdapter (agents/claude_code.py).                          *)
(*                                                                         *)
(* One adapter instance is modelled together with the coroutines that call *)
(* it.  asyncio runs one coroutine at a time and switches only at an       *)
(* await that really suspends: `running` names the coroutine that holds    *)
(* the event loop (0: the loop is idle and any suspended coroutine whose   *)
(* I/O has completed may resume).                                          *)
(***************************************************************************)
EXTENDS Integers, Sequences, FiniteSets, TLC

\* ------------------------------------------------------------------ bounds
NumTasks == 2          \* coroutines that may overlap on the adapter
MaxCalls == 3          \* calls begun in one behaviour, one after the other
MaxOverlapCalls == 2   \* calls begun in one behaviour when they may overlap
MaxFrames == 3         \* lines of one event stream

\* ------------------------------------------------------- program constants
StartupCeiling == 30   \* for _ in range(30) in _ensure_server_running

Tasks == 1 .. NumTasks
Ids   == 1 .. MaxCalls
NoId  == 0

\* ------------------------------------------------------------------- text
\* A text is a sequence of string tokens; "".join and f-strings are \o.
None  == << "<None>" >>
Empty == << >>

Whitespace == { " ", "\n" }

RECURSIVE LStrip(_)
LStrip(s) == IF s # << >> /\ Head(s) \in Whitespace THEN LStrip(Tail(s)) ELSE s

RECURSIVE RStrip(_)
RStrip(s) ==
    IF s # << >> /\ s[Len(s)] \in Whitespace
    THEN RStrip(SubSeq(s, 1, Len(s) - 1))
    ELSE s

\* str.strip()
Strip(s) == RStrip(LStrip(s))

\* what the child of one subprocess call may write and how it may exit
ChildOutcome(rc, out, err) == [ rc |-> rc, stdout |-> out, stderr |-> err ]

ChildOutcomes ==
    { ChildOutcome(0, << " ", "o", "k", "\n" >>, << >>),
      ChildOutcome(0, << >>, << "w", "\n" >>),
      ChildOutcome(1, << "o", "k", "\n" >>, << "e", "\n" >>),
      ChildOutcome(1, << >>, << >>) }

RcText(rc) == IF rc = 0 THEN "0" ELSE "1"

\* --------------------------------------------------------------- constants
\* config.extra defaults
CliPath(k)  == IF k = "opencode" THEN "opencode" ELSE "claude"
ServerUrl   == << "http://localhost", ":", "4096" >>
\* self._server_url.split(":")[-1]
Port        == ServerUrl[Len(ServerUrl)]
Timeout     == "300"

\* a message that names neither the executable nor where to get it
ErrCliNotFoundGeneric(k) == << "CLI not found" >>

\* ------------------------------------------------------------------ errors
\* str(e) of each exception the adapters raise themselves
ErrCliNotFound(k) ==
    IF k = "opencode"
    THEN << "OpenCode CLI not found at '", CliPath(k), "'. ",
            "Install from: https://github.com/opencode-ai/opencode" >>
    ELSE << "Claude Code CLI not found at '", CliPath(k), "'. ",
            "Install from: https://github.com/anthropics/claude-code" >>

ErrServerNotRunning ==
    << "OpenCode server not running at " >> \o ServerUrl \o
    << ". ", "Start with: opencode serve --port ", Port >>

ErrServerStart   == << "Failed to start OpenCode server" >>
ErrConnect       == << "Failed to connect to OpenCode server: ", "<http error>" >>
ErrNotServerMode == << "Server mode not initialized" >>
ErrUnknownOp(o)  == << "Unknown agent operation: ", o >>
ErrTimeout       == << "Claude Code CLI timed out after ", Timeout, "s" >>

\* raised by the collaborators (bridge, httpx, asyncio, step/context)
ErrBridgeInit == << "<bridge initialize failed>" >>
ErrBridgeCall == << "<bridge call_tool failed>" >>
ErrBridgeStop == << "<bridge cleanup failed>" >>
ErrHttp       == << "<http error>" >>
ErrSpawn      == << "<create_subprocess_exec failed>" >>
ErrTemplate   == << "<resolve_template failed>" >>
ErrKwargs     == << "generate() got multiple values for keyword argument 'context'" >>

ErrCliFailed(k, rc, out, err) ==
    << IF k = "opencode" THEN "OpenCode CLI failed (exit code "
                         ELSE "Claude Code CLI failed (exit code ",
       RcText(rc), ")\n", "STDOUT: " >>
    \o (IF out # << >> THEN out ELSE << >>)
    \o << "\n", "STDERR: " >>
    \o (IF err # << >> THEN err ELSE << "Unknown error" >>)


\* ------------------------------------------------------------ collaborators
\* MCPBridge.list_tools(): the qualified names the bridge advertises
BridgeTools == { << "files", ".", "read" >> }
BridgeResult == << "<bridge result>" >>

\* the tool's name without the operation
FullToolNameBare(tool, operation) == << tool >>

\* f"{tool_name}.{operation}"
FullToolName(tool, operation) == << tool, ".", operation >>

\* json.dumps(params, indent=2) of a mapping with at most one key
JsonDumps(params) ==
    IF params = << >> THEN << "{}" >>
    ELSE << "{\n  \"", params[1], "\": \"", params[2], "\"\n}" >>

ToolPrompt(tool, operation, params) ==
    << "Execute the ", tool, " tool with operation '", operation, "'.\n\n",
       "Parameters:\n" >> \o JsonDumps(params) \o
    << "\n\n", "Return the result of executing this tool operation." >>

\* step.inputs, by shape: no key, a "context" key, a "context" whose template
\* the context cannot resolve, an "output_schema" key
InputShapes == { "plain", "context", "bad_template", "schema" }

\* context.resolve_template raises on the bad template
BuildRaises(operation, inputs) ==
    operation \in { "analyze", "generate_response" } /\ inputs = "bad_template"

AnalysisPrompt(inputs) ==
    (IF inputs \in { "plain", "schema" } THEN << >> ELSE << "<context>", "\n" >>)
    \o << "\nProvide a clear, structured response." >>

GenerationPrompt(inputs) ==
    IF inputs = "plain" THEN << >> ELSE << "<context>" >>

ReportPrompt == << "Generate an execution report.\n", "\n", "\nFormat as markdown." >>

UserPrompt == << "hi" >>

\* ------------------------------------------------------------------- calls
\* what a caller may ask of the adapter
NoArgs(op) ==
    [ op |-> op, tool |-> "", operation |-> "", params |-> << >>, inputs |-> "plain" ]

DirectCalls ==
    { NoArgs(op) : op \in { "initialize", "cleanup", "generate", "generate_stream" } }

ToolCalls ==
    { [ op |-> "call_tool", tool |-> "files", operation |-> o,
        params |-> << "path", "a.txt" >>, inputs |-> "plain" ] : o \in { "read", "write" } }

\* WorkflowStep: action "<tool>.<operation>", get_tool_name(), get_operation()
StepCalls ==
    { [ op |-> "execute_step", tool |-> "agent", operation |-> "analyze",
        params |-> << >>, inputs |-> i ] : i \in { "plain", "bad_template" } }
    \cup
    { [ op |-> "execute_step", tool |-> "agent", operation |-> "generate_response",
        params |-> << >>, inputs |-> i ] : i \in { "plain", "context" } }
    \cup
    { [ op |-> "execute_step", tool |-> "agent", operation |-> o,
        params |-> << >>, inputs |-> "plain" ] : o \in { "generate_report", "summarize" } }
    \cup
    { [ op |-> "execute_step", tool |-> "files", operation |-> o,
        params |-> << "path", "a.txt" >>, inputs |-> "plain" ] : o \in { "read", "write" } }

Calls == DirectCalls \cup ToolCalls \cup StepCalls

\* the calls made when the caller lets calls overlap (asyncio.gather)
OverlapCalls ==
    { NoArgs(op) : op \in { "initialize", "cleanup", "generate" } }
    \cup
    { [ op |-> "execute_step", tool |-> "agent", operation |-> "generate_report",
        params |-> << >>, inputs |-> "plain" ] }

StepId == "step-1"

\* ------------------------------------------------------------------- state
VARIABLES
    kind,              \* "opencode" | "claude": the adapter class
    mode,              \* self._mode: "auto" | "cli" | "server"
    server_autostart,  \* self._server_autostart
    mcp_config,        \* config.extra["mcp_servers"] is not empty
    initialized,       \* self._initialized
    active_mode,       \* self._active_mode: "none" | "cli" | "server"
    http_client,       \* self._http_client: NoId or a client
    session_id,        \* self._session_id: NoId or a session
    server_process,    \* self._server_process: NoId or a process
    mcp_bridge,        \* self._mcp_bridge: NoId or a bridge
    clients,           \* every httpx.AsyncClient made: "none" | "open" | "closed"
    procs,             \* every server process spawned: "none" | "running" | "killed" | "exited"
    bridges,           \* every MCPBridge made: "none" | "created" | "ready" | "closed"
    overlap,           \* the caller lets its calls overlap, or awaits each in turn
    tasks,             \* the coroutines calling the adapter
    running,           \* the coroutine holding the event loop, or 0
    calls              \* calls begun so far

vars == << kind, mode, server_autostart, mcp_config, initialized, active_mode,
           http_client, session_id, server_process, mcp_bridge, clients, procs,
           bridges, overlap, tasks, running, calls >>

config == << kind, mode, server_autostart, mcp_config, overlap >>
handles == << http_client, session_id, server_process, mcp_bridge >>
owned == << clients, procs, bridges >>

NoStepResult ==
    [ step_id |-> "", status |-> "none", output |-> None, error |-> None,
      started_at |-> "unset", completed_at |-> "unset" ]

IdleTask ==
    [ no |-> 0, op |-> "none", tool |-> "", operation |-> "", params |-> << >>,
      inputs |-> "plain", pc |-> "idle", poll_i |-> 0, started_at |-> "unset",
      began_ready |-> FALSE, which |-> "unchecked", probes |-> 0, first_probe |-> "none", spawned |-> 0,
      opened |-> 0, sessions |-> 0, bridged |-> 0, resolved |-> "none",
      via |-> { }, reqs |-> 0, prompt |-> None,
      bridge_calls |-> 0, client |-> NoId, session |-> NoId, bridge |-> NoId,
      child |-> "none", hangs |-> FALSE, rc |-> 0, stdout |-> << >>, stderr |-> << >>,
      stream |-> "none", frames |-> << >>, fpos |-> 0, yielded |-> << >>,
      phase |-> "init", reached |-> FALSE, fault |-> None, after_cleanup |-> FALSE,
      body |-> [ has_parts |-> FALSE, parts |-> << >>, has_text |-> FALSE, text |-> << >> ],
      outcome |-> "none", value |-> None, error |-> None, sr |-> NoStepResult ]

Init ==
    /\ kind \in { "opencode", "claude" }
    /\ mode \in IF kind = "opencode" THEN { "auto", "cli", "server" } ELSE { "cli" }
    /\ server_autostart \in IF kind = "opencode" THEN BOOLEAN ELSE { FALSE }
    /\ mcp_config \in BOOLEAN
    /\ initialized = FALSE
    /\ active_mode = "none"
    /\ http_client = NoId
    /\ session_id = NoId
    /\ server_process = NoId
    /\ mcp_bridge = NoId
    /\ clients = [ i \in Ids |-> "none" ]
    /\ procs = [ i \in Ids |-> "none" ]
    /\ bridges = [ i \in Ids |-> "none" ]
    /\ overlap \in BOOLEAN
    /\ tasks = [ t \in Tasks |-> IdleTask ]
    /\ running = 0
    /\ calls = 0

\* ----------------------------------------------------- returning and raising
\* execute_step's `return StepResult(... status=COMPLETED, output=result ...)`
StepCompleted(tk, v) ==
    [ tk EXCEPT !.pc = "done", !.outcome = "returned",
         !.sr = [ step_id |-> StepId, status |-> "COMPLETED", output |-> v,
                  error |-> None, started_at |-> tk.started_at,
                  completed_at |-> "now" ] ]

\* the except clause left out of execute_step: the failure reaches the caller
StepFailedPropagates(tk, e) ==
    [ tk EXCEPT !.pc = "done", !.outcome = "raised", !.error = e ]

\* execute_step's `except Exception as e: return StepResult(... FAILED ...)`
StepFailed(tk, e) ==
    [ tk EXCEPT !.pc = "done", !.outcome = "returned",
         !.sr = [ step_id |-> StepId, status |-> "FAILED", output |-> None,
                  error |-> e, started_at |-> tk.started_at,
                  completed_at |-> "now" ] ]

\* the operation of task tk returns v
Returned(tk, v) ==
    IF tk.op = "execute_step" THEN StepCompleted(tk, v)
    ELSE [ tk EXCEPT !.pc = "done", !.outcome = "returned", !.value = v ]

\* an exception with description e leaves the operation of task tk
Raised(tk, e) ==
    LET f == [ tk EXCEPT !.fault = e ]
    IN IF f.op = "execute_step" THEN StepFailed(f, e)
       ELSE [ f EXCEPT !.pc = "done", !.outcome = "raised", !.error = e ]

\* a generator that hands every item over twice
YieldedTwice(tk, v) ==
    [ tk EXCEPT !.pc = "stream_yield", !.yielded = Append(Append(@, v), v) ]

\* the generator of task t hands item v to its consumer
Yielded(tk, v) == [ tk EXCEPT !.pc = "stream_yield", !.yielded = Append(@, v) ]

AtAwait(t, pc) == running = 0 /\ tasks[t].pc = pc
AtSync(t, pc)  == running = t /\ tasks[t].pc = pc


\* the `if self._initialized: return` left out of initialize()
EnterInitializeAgain(tk, found) ==
    IF ~found THEN Raised([ tk EXCEPT !.which = "absent" ], ErrCliNotFound(kind))
    ELSE IF kind = "claude" THEN [ tk EXCEPT !.which = "found", !.pc = "init_bridge" ]
    ELSE IF mode = "cli"
    THEN [ tk EXCEPT !.which = "found", !.pc = "init_bridge", !.resolved = "cli" ]
    ELSE IF mode = "server" THEN [ tk EXCEPT !.which = "found", !.pc = "ensure_probe" ]
    ELSE [ tk EXCEPT !.which = "found", !.pc = "auto_probe" ]

\* --------------------------------------------------------------- initialize
\* initialize(), from its first line to its first await
\* found: shutil.which(self._cli_path) finds the executable
EnterInitialize(tk, found) ==
    IF initialized THEN [ tk EXCEPT !.pc = "dispatch" ]
    ELSE IF ~found THEN Raised([ tk EXCEPT !.which = "absent" ], ErrCliNotFound(kind))
    ELSE IF kind = "claude" THEN [ tk EXCEPT !.which = "found", !.pc = "init_bridge" ]
    ELSE IF mode = "cli"
    THEN [ tk EXCEPT !.which = "found", !.pc = "init_bridge", !.resolved = "cli" ]
    ELSE IF mode = "server" THEN [ tk EXCEPT !.which = "found", !.pc = "ensure_probe" ]
    ELSE [ tk EXCEPT !.which = "found", !.pc = "auto_probe" ]

SyncPcs == { "init_bridge", "dispatch", "cleanup", "cleanup_process" }

\* who holds the event loop once task t has become tk
Holder(t, tk) == IF tk.pc \in SyncPcs THEN t ELSE 0

\* some cleanup() on this adapter has returned
CleanupReturned ==
    \E u \in Tasks :
        \/ tasks[u].after_cleanup
        \/ tasks[u].op = "cleanup" /\ tasks[u].pc = "done" /\ tasks[u].outcome = "returned"

\* a caller starts a call; the coroutine runs to its first await
Begin(t, c, found) ==
    /\ running = 0
    /\ IF overlap
       THEN calls < MaxOverlapCalls /\ c \in OverlapCalls
       ELSE calls < MaxCalls /\ t = 1
    /\ tasks[t].pc \in { "idle", "done" }
    /\ kind = "claude" => c.op # "generate_stream"   \* ClaudeCodeAdapter defines none
    /\ LET fresh == [ IdleTask EXCEPT !.no = calls + 1, !.op = c.op, !.tool = c.tool,
                         !.operation = c.operation, !.params = c.params,
                         !.inputs = c.inputs, !.began_ready = initialized,
                         !.after_cleanup = CleanupReturned,
                         !.started_at = IF c.op = "execute_step" THEN "now" ELSE "unset" ]
           tk == IF c.op = "cleanup" THEN [ fresh EXCEPT !.pc = "cleanup" ]
                 ELSE EnterInitialize(fresh, found)
       IN /\ tasks' = [ tasks EXCEPT ![t] = tk ]
          /\ running' = Holder(t, tk)
          /\ active_mode' = IF tk.resolved = "cli" THEN "cli" ELSE active_mode
    /\ calls' = calls + 1
    /\ UNCHANGED << config, initialized, handles, owned >>

\* self._active_mode = "server", then httpx.AsyncClient(...) and POST /session
\* seen: what the call's first probe answered
ResolveServer(t, seen) ==
    /\ active_mode' = "server"
    /\ http_client' = tasks[t].no
    /\ clients' = [ clients EXCEPT ![tasks[t].no] = "open" ]
    /\ tasks' = [ tasks EXCEPT ![t].pc = "session_post", ![t].resolved = "server",
                     ![t].reached = TRUE, ![t].poll_i = 0, ![t].opened = @ + 1,
                     ![t].probes = IF tasks[t].pc = "poll" THEN @ ELSE @ + 1,
                     ![t].first_probe = seen ]
    /\ running' = 0
    /\ UNCHANGED << session_id, server_process, mcp_bridge, procs, bridges, initialized >>

\* auto mode resolving to the server whatever the probe answers
AutoResolveAlwaysServer(up) == "server"

\* the autostart setting ignored
MaySpawnAlways == TRUE

\* auto mode: `if await self._check_server_available()` chooses the mode
AutoResolve(up) == IF up THEN "server" ELSE "cli"

\* `if not self._server_autostart: raise`
MaySpawn == server_autostart

\* auto mode: one _check_server_available() decides; up is its answer
AutoProbe(t, up) ==
    /\ AtAwait(t, "auto_probe")
    /\ IF AutoResolve(up) = "server"
       THEN ResolveServer(t, IF up THEN "up" ELSE "down")
       ELSE /\ active_mode' = "cli"
            /\ tasks' = [ tasks EXCEPT ![t].pc = "init_bridge", ![t].resolved = "cli",
                             ![t].probes = @ + 1, ![t].first_probe = "down" ]
            /\ running' = t
            /\ UNCHANGED << handles, owned, initialized >>
    /\ UNCHANGED << config, calls >>

\* _ensure_server_running(): its first probe, then autostart
EnsureProbe(t, up) ==
    /\ AtAwait(t, "ensure_probe")
    /\ IF up
       THEN ResolveServer(t, "up")
       ELSE IF ~MaySpawn
       THEN /\ tasks' = [ tasks EXCEPT ![t] =
                    Raised([ @ EXCEPT !.probes = @ + 1, !.first_probe = "down" ],
                           ErrServerNotRunning) ]
            /\ running' = 0
            /\ UNCHANGED << active_mode, handles, owned, initialized >>
       ELSE /\ server_process' = tasks[t].no
            /\ procs' = [ procs EXCEPT ![tasks[t].no] = "running" ]
            /\ tasks' = [ tasks EXCEPT ![t].pc = "poll", ![t].poll_i = 0,
                             ![t].probes = @ + 1, ![t].first_probe = "down",
                             ![t].spawned = @ + 1 ]
            /\ running' = 0
            /\ UNCHANGED << active_mode, http_client, session_id, mcp_bridge,
                            clients, bridges, initialized >>
    /\ UNCHANGED << config, calls >>

\* a startup wait whose loop has no last round
LastRoundNever(i) == FALSE

\* `for _ in range(30)`: round i (from 0) is the last one
LastRound(i) == i + 1 >= StartupCeiling

\* one round of the startup wait: a probe and, if it fails, the one-second sleep
Poll(t, up) ==
    /\ AtAwait(t, "poll")
    /\ IF up
       THEN ResolveServer(t, tasks[t].first_probe)
       ELSE /\ tasks' = [ tasks EXCEPT ![t] =
                    IF LastRound(@.poll_i)
                    THEN Raised([ @ EXCEPT !.poll_i = 0 ], ErrServerStart)
                    ELSE [ @ EXCEPT !.poll_i = @ + 1 ] ]
            /\ running' = 0
            /\ UNCHANGED << active_mode, handles, owned, initialized >>
    /\ UNCHANGED << config, calls >>

\* the answer to POST /session
SessionPost(t, ok) ==
    /\ AtAwait(t, "session_post")
    /\   IF ok
         THEN /\ session_id' = tasks[t].no
              /\ tasks' = [ tasks EXCEPT ![t].pc = "init_bridge", ![t].sessions = @ + 1 ]
              /\ running' = t
         ELSE /\ tasks' = [ tasks EXCEPT ![t] = Raised(@, ErrConnect) ]
              /\ running' = 0
              /\ UNCHANGED session_id
    /\ UNCHANGED << config, calls, active_mode, http_client, server_process,
                    mcp_bridge, owned, initialized >>

\* the MCP bridge, if configured; else initialization is complete
InitBridge(t) ==
    /\ AtSync(t, "init_bridge")
    /\ IF mcp_config
       THEN /\ mcp_bridge' = tasks[t].no
            /\ bridges' = [ bridges EXCEPT ![tasks[t].no] = "created" ]
            /\ tasks' = [ tasks EXCEPT ![t].pc = "bridge_init", ![t].bridged = @ + 1 ]
            /\ running' = 0
            /\ UNCHANGED initialized
       ELSE /\ initialized' = TRUE
            /\ tasks' = [ tasks EXCEPT ![t].pc = "dispatch" ]
            /\ UNCHANGED << mcp_bridge, bridges, running >>
    /\ UNCHANGED << config, calls, active_mode, http_client, session_id,
                    server_process, clients, procs >>

\* the answer of MCPBridge.initialize()
BridgeInit(t) ==
    /\ AtAwait(t, "bridge_init")
    /\ \E ok \in BOOLEAN :
         IF ok
         THEN /\ bridges' = [ bridges EXCEPT ![tasks[t].no] = "ready" ]
              /\ initialized' = TRUE
              /\ tasks' = [ tasks EXCEPT ![t].pc = "dispatch" ]
              /\ running' = t
         ELSE /\ tasks' = [ tasks EXCEPT ![t] = Raised(@, ErrBridgeInit) ]
              /\ running' = 0
              /\ UNCHANGED << bridges, initialized >>
    /\ UNCHANGED << config, calls, active_mode, handles, clients, procs >>


\* ------------------------------------------------------------ event stream
\* One line of GET /event, by what the handler reads of it:
\*   line      "blank": the empty line; "data": it starts with "data: "; "other"
\*   payload   json.loads of the rest: an "object", a "scalar" (a number, a
\*             string, a list, null), or "garbage" (JSONDecodeError)
\*   type      event_data.get("type"), "absent" without the key
\*   delta     event_data["delta"]["text"], Absent without either key
\*   part_type, part_text   of event_data.get("part", {})
Absent == << "<absent>" >>

Frame(line, payload, type, delta, part_type, part_text) ==
    [ line |-> line, payload |-> payload, type |-> type, delta |-> delta,
      part_type |-> part_type, part_text |-> part_text ]

BlankLine      == Frame("blank", "garbage", "absent", Absent, "absent", Absent)
CommentLine    == Frame("other", "garbage", "absent", Absent, "absent", Absent)
GarbageData    == Frame("data", "garbage", "absent", Absent, "absent", Absent)
ScalarData     == Frame("data", "scalar", "absent", Absent, "absent", Absent)
Untyped        == Frame("data", "object", "absent", Absent, "absent", Absent)
UnknownEvent   == Frame("data", "object", "session.updated", Absent, "absent", Absent)
Delta(text)    == Frame("data", "object", "message.part.delta", text, "absent", Absent)
EmptyDelta     == Frame("data", "object", "message.part.delta", Absent, "absent", Absent)
TextPart(text) == Frame("data", "object", "message.part", Absent, "text", text)
ToolPart(text) == Frame("data", "object", "message.part", Absent, "tool", text)
BarePart       == Frame("data", "object", "message.part", Absent, "text", Absent)
Complete       == Frame("data", "object", "message.complete", Absent, "absent", Absent)

Hel == << "H", "e", "l" >>
lo  == << "l", "o" >>

ErrAttribute == << "'int' object has no attribute 'get'" >>

\* what one pass of the `async for line` body does with a line:
\* "skip", "yield" (of text), "stop" (break) or "raise"
Effect(what, text) == [ what |-> what, text |-> text ]

\* the loop body without its `break` on message.complete
HandleLineNoBreak(f) ==
    IF f.line # "data" THEN Effect("skip", Absent)
    ELSE IF f.payload = "garbage" THEN Effect("skip", Absent)
    ELSE IF f.payload = "scalar" THEN Effect("raise", ErrAttribute)
    ELSE IF f.type = "message.part.delta"
    THEN IF f.delta # Absent THEN Effect("yield", f.delta) ELSE Effect("skip", Absent)
    ELSE IF f.type = "message.part"
    THEN IF f.part_type = "text" /\ f.part_text # Absent
         THEN Effect("yield", f.part_text)
         ELSE Effect("skip", Absent)
    ELSE Effect("skip", Absent)

HandleLine(f) ==
    IF f.line # "data" THEN Effect("skip", Absent)
    ELSE IF f.payload = "garbage" THEN Effect("skip", Absent)
    ELSE IF f.payload = "scalar" THEN Effect("raise", ErrAttribute)
    ELSE IF f.type = "message.part.delta"
    THEN IF f.delta # Absent THEN Effect("yield", f.delta) ELSE Effect("skip", Absent)
    ELSE IF f.type = "message.complete" THEN Effect("stop", Absent)
    ELSE IF f.type = "message.part"
    THEN IF f.part_type = "text" /\ f.part_text # Absent
         THEN Effect("yield", f.part_text)
         ELSE Effect("skip", Absent)
    ELSE Effect("skip", Absent)

\* the event streams one call may be served
Alphabet ==
    { BlankLine, CommentLine, GarbageData, ScalarData, Untyped, UnknownEvent,
      Delta(Hel), Delta(lo), EmptyDelta, TextPart(Hel), ToolPart(lo), BarePart,
      Complete }

SeqsUpTo(S, n) == UNION { [ 1 .. k -> S ] : k \in 0 .. n }

AllStreams == SeqsUpTo(Alphabet, MaxFrames)
FewStreams == { << Delta(Hel), Complete >> }

\* ------------------------------------------------------------ normalization
\* JSON text, token by token: "{" "}" "[" "]" ",", a key with its colon
\* ("k:", "j:"), the number "1", white space; "p" is a word of prose,
\* "<fence json>" and "<fence>" are the three backticks, with and without
\* the json tag, that open and close a markdown code block; "<quote>" is the
\* double quote that opens and closes a string value.
Keys == { "k:", "j:" }

Quote == "<quote>"

\* what a string value may hold between its quotes: anything but a quote
\* (a key token has two), a backslash and a control character (the newline)
InString(x) == x \notin Keys \cup { Quote, "\n" }

\* the position of the first quote of s, 0 if it has none
RECURSIVE FirstQuote(_, _)
FirstQuote(s, i) ==
    IF i > Len(s) THEN 0
    ELSE IF s[i] = Quote THEN i
    ELSE FirstQuote(s, i + 1)

Parse(ok, rest) == [ ok |-> ok, rest |-> rest ]

RECURSIVE ParseValue(_)
RECURSIVE ParseMembers(_)
RECURSIVE ParseElements(_)

\* one JSON value at the head of s; rest is what follows it
ParseValue(s) ==
    LET t == LStrip(s) IN
    IF t = << >> THEN Parse(FALSE, << >>)
    ELSE IF Head(t) = "1" THEN Parse(TRUE, Tail(t))
    ELSE IF Head(t) = Quote
    THEN LET q == FirstQuote(Tail(t), 1) IN
         IF q # 0 /\ \A i \in 1 .. q - 1 : InString(Tail(t)[i])
         THEN Parse(TRUE, SubSeq(Tail(t), q + 1, Len(t) - 1))
         ELSE Parse(FALSE, << >>)
    ELSE IF Head(t) = "{"
    THEN LET u == LStrip(Tail(t)) IN
         IF u # << >> /\ Head(u) = "}" THEN Parse(TRUE, Tail(u)) ELSE ParseMembers(u)
    ELSE IF Head(t) = "["
    THEN LET u == LStrip(Tail(t)) IN
         IF u # << >> /\ Head(u) = "]" THEN Parse(TRUE, Tail(u)) ELSE ParseElements(u)
    ELSE Parse(FALSE, << >>)

\* key: value { , key: value } "}"
ParseMembers(s) ==
    LET t == LStrip(s) IN
    IF t = << >> \/ Head(t) \notin Keys THEN Parse(FALSE, << >>)
    ELSE LET v == ParseValue(Tail(t))
             u == LStrip(v.rest)
         IN IF ~v.ok \/ u = << >> THEN Parse(FALSE, << >>)
            ELSE IF Head(u) = "}" THEN Parse(TRUE, Tail(u))
            ELSE IF Head(u) = "," THEN ParseMembers(Tail(u))
            ELSE Parse(FALSE, << >>)

\* value { , value } "]"
ParseElements(s) ==
    LET v == ParseValue(s)
        u == LStrip(v.rest)
    IN IF ~v.ok \/ u = << >> THEN Parse(FALSE, << >>)
       ELSE IF Head(u) = "]" THEN Parse(TRUE, Tail(u))
       ELSE IF Head(u) = "," THEN ParseElements(Tail(u))
       ELSE Parse(FALSE, << >>)

IsWhitespace(x) == x \in Whitespace
IsInk(x) == x \notin Whitespace

\* the tokens of s without the white space that lies outside its strings
RECURSIVE Ink(_, _)
Ink(s, quoted) ==
    IF s = << >> THEN << >>
    ELSE IF Head(s) = Quote THEN << Quote >> \o Ink(Tail(s), ~quoted)
    ELSE IF ~quoted /\ IsWhitespace(Head(s)) THEN Ink(Tail(s), quoted)
    ELSE << Head(s) >> \o Ink(Tail(s), quoted)

\* the structure a JSON text denotes: its tokens without the white space
\* between them, marked so that a structure is never equal to a text
Structure(s) == << "<parsed>" >> \o Ink(s, FALSE)

Loaded(ok, value) == [ ok |-> ok, value |-> value ]

\* json.loads(s): the structure, or JSONDecodeError
Loads(s) ==
    LET r == ParseValue(s)
    IN IF r.ok /\ LStrip(r.rest) = << >> THEN Loaded(TRUE, Structure(s))
       ELSE Loaded(FALSE, None)

Match(found, group) == [ found |-> found, group |-> group ]

\* the first token at or after position i that is not white space (0: none)
RECURSIVE NextInk(_, _)
NextInk(s, i) ==
    IF i > Len(s) THEN 0
    ELSE IF s[i] \in Whitespace THEN NextInk(s, i + 1)
    ELSE i

\* three backticks match at token i: a closing fence, or the head of another
\* opening one
FenceAt(s, i) == i # 0 /\ s[i] \in { "<fence>", "<fence json>" }

\* the first re.search of analyze (json fence, optional white space, a lazy
\* brace-to-brace group, optional white space, fence): group(1) of the
\* leftmost match, whose group is the shortest one that a fence follows
FencedGroup(s) ==
    LET Open(i)  == s[i] = "<fence json>" /\ NextInk(s, i + 1) # 0
                    /\ s[NextInk(s, i + 1)] = "{"
        Ends(i)  == { e \in DOMAIN s : /\ e > NextInk(s, i + 1)
                                       /\ s[e] = "}"
                                       /\ FenceAt(s, NextInk(s, e + 1)) }
        Starts   == { i \in DOMAIN s : Open(i) /\ Ends(i) # { } }
    IN IF Starts = { } THEN Match(FALSE, << >>)
       ELSE LET i == CHOOSE i \in Starts : \A k \in Starts : i <= k
                e == CHOOSE e \in Ends(i) : \A k \in Ends(i) : e <= k
            IN Match(TRUE, SubSeq(s, NextInk(s, i + 1), e))

\* the second re.search of analyze (a greedy brace-to-brace match): from the
\* first opening brace to the last closing brace
BraceGroup(s) ==
    LET Closes(j) == { e \in DOMAIN s : e > j /\ s[e] = "}" }
        Starts    == { j \in DOMAIN s : s[j] = "{" /\ Closes(j) # { } }
    IN IF Starts = { } THEN Match(FALSE, << >>)
       ELSE LET j == CHOOSE j \in Starts : \A k \in Starts : j <= k
                e == CHOOSE e \in Closes(j) : \A k \in Closes(j) : e >= k
            IN Match(TRUE, SubSeq(s, j, e))

\* analyze() without its schema test: the extraction ladder runs on every text
NormalizeAlways(schema, text) ==
    IF Loads(text).ok THEN Loads(text).value
    ELSE LET b == FencedGroup(text)
             m == IF b.found THEN b ELSE BraceGroup(text)
         IN IF m.found /\ Loads(m.group).ok THEN Loads(m.group).value
            ELSE text

\* analyze(): what is returned for the text of the transport
Normalize(schema, text) ==
    IF ~schema THEN text
    ELSE IF Loads(text).ok THEN Loads(text).value
    ELSE LET b == FencedGroup(text)
             m == IF b.found THEN b ELSE BraceGroup(text)
         IN IF m.found /\ Loads(m.group).ok THEN Loads(m.group).value
            ELSE text

\* the call of task tk is analyze(), direct or as the step agent.analyze
IsAnalyze(tk) ==
    \/ tk.op = "analyze"
    \/ tk.op = "execute_step" /\ tk.tool = "agent" /\ tk.operation = "analyze"

\* the result of the call of task tk, from the text its transport returned
Result(tk, text) ==
    IF IsAnalyze(tk) THEN Normalize(tk.inputs = "schema", text) ELSE text

\* prompt += "Respond with valid JSON matching this schema:" + json.dumps(schema)
WithSchema(prompt, schema) ==
    IF schema
    THEN prompt \o << "\n\nRespond with valid JSON matching this schema:\n", "<schema>" >>
    ELSE prompt

\* ---------------------------------------------------------------- transports
\* the JSON body of the server's answer to POST /session/{id}/message
Part(type, has_text, text) == [ type |-> type, has_text |-> has_text, text |-> text ]

Body(has_parts, parts, has_text, text) ==
    [ has_parts |-> has_parts, parts |-> parts, has_text |-> has_text, text |-> text ]

Bodies ==
    { Body(TRUE, << Part("text", TRUE, << "h" >>), Part("tool", FALSE, << >>),
                    Part("text", TRUE, << "i" >>) >>, FALSE, << >>),
      Body(TRUE, << Part("reasoning", TRUE, << "hm" >>), Part("text", TRUE, << "hi" >>) >>,
           FALSE, << >>),
      Body(TRUE, << Part("text", FALSE, << >>) >>, TRUE, << "hi" >>),
      Body(FALSE, << >>, TRUE, << "h", "i" >>),
      Body(FALSE, << >>, FALSE, << >>) }

RECURSIVE JoinTexts(_)
JoinTexts(parts) ==
    IF parts = << >> THEN << >>
    ELSE (IF Head(parts).has_text THEN Head(parts).text ELSE << >>)
         \o JoinTexts(Tail(parts))

\* _execute_via_server: the text of a response body
ExtractText(data) ==
    IF data.has_parts THEN JoinTexts(data.parts)
    ELSE IF data.has_text THEN data.text
    ELSE << "<str(data)>" >>

ErrClientClosed == << "Cannot send a request, as the client has been closed." >>

\* _execute_via_server with a session of its own for every call
StartServerOwnSession(tk, prompt) ==
    IF http_client = NoId \/ session_id = NoId THEN Raised(tk, ErrNotServerMode)
    ELSE [ tk EXCEPT !.pc = "http_post", !.via = @ \cup { "server" }, !.reqs = @ + 1,
                     !.prompt = prompt, !.client = http_client, !.session = tk.no ]

\* _execute_via_server(prompt) to its await of the POST
StartServer(tk, prompt) ==
    IF http_client = NoId \/ session_id = NoId THEN Raised(tk, ErrNotServerMode)
    ELSE IF clients[http_client] = "closed"
    THEN Raised([ tk EXCEPT !.via = @ \cup { "server" }, !.reqs = @ + 1,
                               !.prompt = prompt ], ErrClientClosed)
    ELSE [ tk EXCEPT !.pc = "http_post", !.via = @ \cup { "server" }, !.reqs = @ + 1,
                     !.prompt = prompt, !.client = http_client, !.session = session_id ]

\* _execute_via_server_stream(prompt) to its await of the POST
StartStream(tk, prompt) ==
    IF http_client = NoId \/ session_id = NoId THEN Raised(tk, ErrNotServerMode)
    ELSE IF clients[http_client] = "closed"
    THEN Raised([ tk EXCEPT !.via = @ \cup { "server" }, !.reqs = @ + 1,
                               !.prompt = prompt ], ErrClientClosed)
    ELSE [ tk EXCEPT !.pc = "stream_post", !.via = @ \cup { "server" }, !.reqs = @ + 1,
                     !.prompt = prompt, !.client = http_client, !.session = session_id ]

\* _execute_via_cli(prompt) to its await of create_subprocess_exec
StartCli(tk, prompt) ==
    [ tk EXCEPT !.pc = "cli_spawn", !.via = @ \cup { "cli" }, !.reqs = @ + 1,
                !.prompt = prompt ]

\* generate(prompt) and analyze(prompt) once initialized: the active transport
StartTransport(tk, prompt) ==
    IF kind = "opencode" /\ active_mode = "server"
    THEN IF tk.op = "generate_stream" THEN StartStream(tk, prompt)
         ELSE StartServer(tk, prompt)
    ELSE StartCli(tk, prompt)

\* call_tool(tool_name, operation, params) once initialized
StartTool(tk) ==
    IF mcp_bridge # NoId /\ FullToolName(tk.tool, tk.operation) \in BridgeTools
    THEN [ tk EXCEPT !.pc = "bridge_call", !.via = @ \cup { "bridge" },
                     !.bridge_calls = @ + 1 ]
    ELSE StartTransport(tk, ToolPrompt(tk.tool, tk.operation, tk.params))

\* execute_step's dispatch without its last else: an operation it does not
\* know is sent on as a generation
StartStepForwards(tk) ==
    IF tk.tool = "agent"
    THEN IF tk.operation = "analyze"
         THEN IF BuildRaises(tk.operation, tk.inputs) THEN Raised(tk, ErrTemplate)
              ELSE StartTransport(tk, WithSchema(AnalysisPrompt(tk.inputs),
                                                 tk.inputs = "schema"))
         ELSE IF tk.operation = "generate_response"
         THEN IF BuildRaises(tk.operation, tk.inputs) THEN Raised(tk, ErrTemplate)
              ELSE IF tk.inputs = "context" THEN Raised(tk, ErrKwargs)
              ELSE StartTransport(tk, GenerationPrompt(tk.inputs))
         ELSE StartTransport(tk, ReportPrompt)
    ELSE StartTool(tk)

\* execute_step's dispatch on step.action
StartStep(tk) ==
    IF tk.tool = "agent"
    THEN IF tk.operation = "analyze"
         THEN IF BuildRaises(tk.operation, tk.inputs) THEN Raised(tk, ErrTemplate)
              ELSE StartTransport(tk, WithSchema(AnalysisPrompt(tk.inputs),
                                                 tk.inputs = "schema"))
         ELSE IF tk.operation = "generate_response"
         THEN IF BuildRaises(tk.operation, tk.inputs) THEN Raised(tk, ErrTemplate)
              ELSE IF tk.inputs = "context" THEN Raised(tk, ErrKwargs)
              ELSE StartTransport(tk, GenerationPrompt(tk.inputs))
         ELSE IF tk.operation = "generate_report"
         THEN StartTransport(tk, ReportPrompt)
         ELSE Raised(tk, ErrUnknownOp(tk.operation))
    ELSE StartTool(tk)

\* the operation proper, after `if not self._initialized: await self.initialize()`
Dispatch(t) ==
    /\ AtSync(t, "dispatch")
    /\ tasks' = [ tasks EXCEPT ![t] =
            LET tk == [ @ EXCEPT !.phase = "run" ]
            IN IF tk.op = "initialize" THEN Returned(tk, None)
               ELSE IF tk.op = "analyze"
               THEN StartTransport(tk, WithSchema(UserPrompt, tk.inputs = "schema"))
               ELSE IF tk.op \in { "generate", "generate_stream" }
               THEN StartTransport(tk, UserPrompt)
               ELSE IF tk.op = "call_tool" THEN StartTool(tk)
               ELSE StartStep(tk) ]
    /\ running' = 0
    /\ UNCHANGED << config, calls, initialized, active_mode, handles, owned >>

\* the response to POST /session/{id}/message
HttpPost(t) ==
    /\ AtAwait(t, "http_post")
    /\ \/ \E data \in Bodies :
            /\ clients[tasks[t].client] = "open"
            /\ tasks' = [ tasks EXCEPT ![t] =
                    Returned([ @ EXCEPT !.body = data ], Result(@, ExtractText(data))) ]
       \/ tasks' = [ tasks EXCEPT ![t] = Raised(@, ErrHttp) ]
    /\ UNCHANGED << config, calls, initialized, active_mode, handles, owned, running >>

\* asyncio.create_subprocess_exec returns the child, or cannot start it
CliSpawn(t) ==
    /\ AtAwait(t, "cli_spawn")
    /\ \/ \E h \in BOOLEAN :
            tasks' = [ tasks EXCEPT ![t].pc = "cli_comm", ![t].child = "running",
                                    ![t].hangs = h ]
       \/ tasks' = [ tasks EXCEPT ![t] = Raised(@, ErrSpawn) ]
    /\ UNCHANGED << config, calls, initialized, active_mode, handles, owned, running >>

\* process.communicate() returns: the child has exited with outcome c
CliExits(t, c) ==
    /\ AtAwait(t, "cli_comm")
    /\ ~tasks[t].hangs
    /\ tasks' = [ tasks EXCEPT ![t] =
            LET tk == [ @ EXCEPT !.child = "exited", !.rc = c.rc, !.stdout = c.stdout,
                                 !.stderr = c.stderr ]
            IN IF c.rc # 0 THEN Raised(tk, ErrCliFailed(kind, c.rc, c.stdout, c.stderr))
               ELSE IF tk.op = "generate_stream" THEN Yielded(tk, Strip(c.stdout))
               ELSE Returned(tk, Result(tk, Strip(c.stdout))) ]
    /\ UNCHANGED << config, calls, initialized, active_mode, handles, owned, running >>

CliExit(t) == \E c \in ChildOutcomes : CliExits(t, c)

\* the timeout handler without its `await process.wait()`: kill, then raise
CliTimeoutNoReap(t) ==
    /\ AtAwait(t, "cli_comm")
    /\ kind = "claude"
    /\ tasks' = [ tasks EXCEPT ![t] = Raised([ @ EXCEPT !.child = "killed" ], ErrTimeout) ]
    /\ UNCHANGED << config, calls, initialized, active_mode, handles, owned, running >>

\* asyncio.wait_for(process.communicate(), timeout) runs out: process.kill()
CliTimeout(t) ==
    /\ AtAwait(t, "cli_comm")
    /\ kind = "claude"
    /\ tasks' = [ tasks EXCEPT ![t].pc = "cli_reap", ![t].child = "killed" ]
    /\ UNCHANGED << config, calls, initialized, active_mode, handles, owned, running >>

\* await process.wait() returns, then the timeout failure is raised
CliReap(t) ==
    /\ AtAwait(t, "cli_reap")
    /\ tasks' = [ tasks EXCEPT ![t] = Raised([ @ EXCEPT !.child = "exited" ], ErrTimeout) ]
    /\ UNCHANGED << config, calls, initialized, active_mode, handles, owned, running >>

\* the answer of MCPBridge.call_tool(full_tool_name, params)
BridgeCall(t) ==
    /\ AtAwait(t, "bridge_call")
    /\ \E ok \in BOOLEAN :
         tasks' = [ tasks EXCEPT ![t] =
            IF ok THEN Returned(@, BridgeResult) ELSE Raised(@, ErrBridgeCall) ]
    /\ UNCHANGED << config, calls, initialized, active_mode, handles, owned, running >>

\* ---------------------------------------------------------------- streaming
StreamAnswers == { "ok", "error_status", "no_connection" }

\* the answer to POST /session/{id}/prompt_async, then GET /event is opened
StreamPost(t, ok) ==
    /\ AtAwait(t, "stream_post")
    /\ tasks' = [ tasks EXCEPT ![t] =
            IF ok /\ clients[@.client] = "open"
            THEN [ @ EXCEPT !.pc = "stream_open" ]
            ELSE Raised(@, ErrHttp) ]
    /\ UNCHANGED << config, calls, initialized, active_mode, handles, owned, running >>

\* `async with self._http_client.stream(...)` is entered, raise_for_status()
StreamOpen(t, answer, fs) ==
    /\ AtAwait(t, "stream_open")
    /\ tasks' = [ tasks EXCEPT ![t] =
            IF answer = "ok"
            THEN [ @ EXCEPT !.pc = "stream_read", !.stream = "open", !.frames = fs ]
            ELSE IF answer = "error_status"
            THEN Raised([ @ EXCEPT !.stream = "closed" ], ErrHttp)
            ELSE Raised(@, ErrHttp) ]
    /\ UNCHANGED << config, calls, initialized, active_mode, handles, owned, running >>

\* the next line of the stream arrives, or the stream ends
StreamRead(t) ==
    /\ AtAwait(t, "stream_read")
    /\ tasks' = [ tasks EXCEPT ![t] =
            IF @.fpos = Len(@.frames)
            THEN Returned([ @ EXCEPT !.stream = "closed" ], None)
            ELSE LET e  == HandleLine(@.frames[@.fpos + 1])
                     tk == [ @ EXCEPT !.fpos = @ + 1 ]
                 IN IF e.what = "yield" THEN Yielded(tk, e.text)
                    ELSE IF e.what = "stop"
                    THEN Returned([ tk EXCEPT !.stream = "closed" ], None)
                    ELSE IF e.what = "raise"
                    THEN Raised([ tk EXCEPT !.stream = "closed" ], e.text)
                    ELSE tk ]
    /\ UNCHANGED << config, calls, initialized, active_mode, handles, owned, running >>

\* reading the stream fails (the connection drops)
StreamBreaks(t) ==
    /\ AtAwait(t, "stream_read")
    /\ tasks' = [ tasks EXCEPT ![t] = Raised([ @ EXCEPT !.stream = "closed" ], ErrHttp) ]
    /\ UNCHANGED << config, calls, initialized, active_mode, handles, owned, running >>

\* the consumer asks for the next item: the generator resumes after its yield
StreamNext(t) ==
    /\ AtAwait(t, "stream_yield")
    /\ tasks' = [ tasks EXCEPT ![t] =
            IF "cli" \in @.via THEN Returned(@, None)
            ELSE [ @ EXCEPT !.pc = "stream_read" ] ]
    /\ UNCHANGED << config, calls, initialized, active_mode, handles, owned, running >>

\* the consumer stops iterating and drops the generator
StreamAbandon(t) ==
    /\ AtAwait(t, "stream_yield")
    /\ tasks' = [ tasks EXCEPT ![t].pc = "stream_dropped" ]
    /\ UNCHANGED << config, calls, initialized, active_mode, handles, owned, running >>

\* a dropped generator whose `async with` is never left: the call is over
\* and the response is still open
StreamFinalizeLeaks(t) ==
    /\ AtAwait(t, "stream_dropped")
    /\ tasks' = [ tasks EXCEPT ![t].pc = "done", ![t].outcome = "abandoned" ]
    /\ UNCHANGED << config, calls, initialized, active_mode, handles, owned, running >>

\* aclose() of the dropped generator (by the consumer or by the event loop's
\* finalizer hook): GeneratorExit at the yield leaves the `async with`
StreamFinalize(t) ==
    /\ AtAwait(t, "stream_dropped")
    /\ tasks' = [ tasks EXCEPT ![t].pc = "done", ![t].outcome = "abandoned",
                     ![t].stream = IF @ = "open" THEN "closed" ELSE @ ]
    /\ UNCHANGED << config, calls, initialized, active_mode, handles, owned, running >>

\* ------------------------------------------------------------------ cleanup
\* cleanup(): the HTTP client
Cleanup(t) ==
    /\ AtSync(t, "cleanup")
    /\ IF kind = "opencode" /\ http_client # NoId
       THEN /\ tasks' = [ tasks EXCEPT ![t].pc = "aclose", ![t].client = http_client ]
            /\ running' = 0
       ELSE /\ tasks' = [ tasks EXCEPT ![t].pc = "cleanup_process" ]
            /\ UNCHANGED running
    /\ UNCHANGED << config, calls, initialized, active_mode, handles, owned >>

\* await self._http_client.aclose() returns
Aclose(t) ==
    /\ AtAwait(t, "aclose")
    /\ clients' = [ clients EXCEPT ![tasks[t].client] = "closed" ]
    /\ tasks' = [ tasks EXCEPT ![t].pc = "cleanup_process" ]
    /\ running' = t
    /\ UNCHANGED << config, calls, initialized, active_mode, handles, procs, bridges >>

\* cleanup(): terminate(), wait(timeout=5), kill(); then the bridge
CleanupProcess(t) ==
    /\ AtSync(t, "cleanup_process")
    /\ IF kind = "opencode" /\ server_process # NoId /\ procs[server_process] = "running"
       THEN \E exits \in BOOLEAN :
              procs' = [ procs EXCEPT ![server_process] =
                            IF exits THEN "exited" ELSE "killed" ]
       ELSE UNCHANGED procs
    /\ IF mcp_bridge # NoId
       THEN /\ tasks' = [ tasks EXCEPT ![t].pc = "bridge_cleanup", ![t].bridge = mcp_bridge ]
       ELSE /\ tasks' = [ tasks EXCEPT ![t] = Returned(@, None) ]
    /\ running' = 0
    /\ UNCHANGED << config, calls, initialized, active_mode, handles, clients, bridges >>

\* await self._mcp_bridge.cleanup() returns or raises
BridgeCleanup(t) ==
    /\ AtAwait(t, "bridge_cleanup")
    /\ \E ok \in BOOLEAN :
         IF ok
         THEN /\ bridges' = [ bridges EXCEPT ![tasks[t].bridge] = "closed" ]
              /\ tasks' = [ tasks EXCEPT ![t] = Returned(@, None) ]
         ELSE /\ tasks' = [ tasks EXCEPT ![t] = Raised(@, ErrBridgeStop) ]
              /\ UNCHANGED bridges
    /\ UNCHANGED << config, calls, initialized, active_mode, handles, clients,
                    procs, running >>

\* ------------------------------------------------------------ specification
Next ==
    \/ \E t \in Tasks, c \in Calls, found \in BOOLEAN : Begin(t, c, found)
    \/ \E t \in Tasks, answer \in BOOLEAN :
         \/ AutoProbe(t, answer)
         \/ EnsureProbe(t, answer)
         \/ Poll(t, answer)
         \/ SessionPost(t, answer)
    \/ \E t \in Tasks :
         \/ InitBridge(t)
         \/ BridgeInit(t)
         \/ Dispatch(t)
         \/ HttpPost(t)
         \/ CliSpawn(t)
         \/ CliExit(t)
         \/ CliTimeout(t)
         \/ CliReap(t)
         \/ BridgeCall(t)
         \/ Cleanup(t)
         \/ Aclose(t)
         \/ CleanupProcess(t)
         \/ BridgeCleanup(t)
         \/ StreamRead(t)
         \/ StreamBreaks(t)
         \/ StreamNext(t)
         \/ StreamAbandon(t)
         \/ StreamFinalize(t)
    \/ \E t \in Tasks, ok \in BOOLEAN : StreamPost(t, ok)
    \/ \E t \in Tasks, a \in StreamAnswers, fs \in FewStreams : StreamOpen(t, a, fs)

Spec == Init /\ [][Next]_vars



\* ------------------------------------------------------------------ helpers
Contains(s, tok) == \E i \in DOMAIN s : s[i] = tok

\* task t is between its call and its return
InFlight(t) == tasks[t].pc \notin { "idle", "done" }

\* task t's call has ended
Ended(t) == tasks[t].pc = "done"

\* task t's call ran initialize() from its top on an uninitialized adapter
RanInitialize(t) ==
    /\ tasks[t].op \notin { "none", "cleanup" }
    /\ ~tasks[t].began_ready

\* ---------------------------------------------------------------------- C1
\* C1: execute_step never lets a failure reach its caller.  Every ended
\* execute_step call has returned a step result carrying the step's id and
\* both timestamps; if anything failed inside (lazy initialization, prompt
\* building, the transport, a timeout, an unknown agent operation, a tool
\* call) the result is FAILED with the failure's description as its error,
\* and otherwise it is COMPLETED with the operation's result as its output.
C1_ExecuteStepNeverRaises ==
    \A t \in Tasks :
        (tasks[t].op = "execute_step" /\ Ended(t)) =>
            LET tk == tasks[t] IN
            /\ tk.outcome = "returned"
            /\ tk.sr.step_id = StepId
            /\ tk.sr.started_at # "unset"
            /\ tk.sr.completed_at # "unset"
            /\ tk.sr.status \in { "COMPLETED", "FAILED" }
            /\ tk.fault # None =>
                  tk.sr.status = "FAILED" /\ tk.sr.error = tk.fault
            /\ tk.fault = None =>
                  /\ tk.sr.status = "COMPLETED"
                  /\ tk.sr.error = None
                  /\ "cli" \in tk.via => tk.sr.output = Strip(tk.stdout)
                  /\ "server" \in tk.via =>
                        tk.sr.output \in { ExtractText(b) : b \in Bodies }
                  /\ "bridge" \in tk.via => tk.sr.output = BridgeResult
            /\ tk.which = "absent" => tk.sr.error = ErrCliNotFound(kind)
            /\ tk.inputs = "bad_template" /\ tk.phase = "run" =>
                  tk.sr.error = ErrTemplate
            /\ tk.tool = "agent" /\ tk.operation = "summarize" /\ tk.phase = "run" =>
                  tk.sr.error = ErrUnknownOp(tk.operation)
            /\ tk.child = "exited" /\ tk.rc # 0 =>
                  tk.sr.error = ErrCliFailed(kind, tk.rc, tk.stdout, tk.stderr)
            /\ tk.child = "exited" /\ tk.hangs => tk.sr.error = ErrTimeout

\* a step whose child process was killed on the timeout came back FAILED
C1_StepTimedOut ==
    \E t \in Tasks :
        /\ tasks[t].op = "execute_step"
        /\ Ended(t)
        /\ tasks[t].hangs
        /\ tasks[t].sr.status = "FAILED"
        /\ tasks[t].sr.error = ErrTimeout

\* ---------------------------------------------------------------------- C2
\* C2: a failed initialize() leaves the adapter as it was before the call:
\* not initialized, no active mode, and no client, session, server process or
\* bridge retained, so the caller may simply retry.
C2_FailedInitLeavesNothing ==
    \A t \in Tasks :
        (Ended(t) /\ RanInitialize(t) /\ tasks[t].phase = "init" /\ ~overlap
         /\ ~initialized) =>
            /\ active_mode = "none"
            /\ http_client = NoId
            /\ session_id = NoId
            /\ server_process = NoId
            /\ mcp_bridge = NoId

\* ---------------------------------------------------------------------- C3
\* the adapter's own state
adapter == << initialized, active_mode, http_client, session_id, server_process,
              mcp_bridge, clients, procs, bridges >>

\* C3: initialize() on a READY adapter is a no-op.  Every step of such a call
\* leaves the adapter's state (active mode and session id included) as it
\* was, the call looks for no executable, probes and spawns nothing, opens no
\* client, session or bridge, and it returns normally.
C3_InitializeWhenReadyIsNoOp ==
    [][ \A t \in Tasks :
            ( /\ tasks'[t] # tasks[t]
              /\ tasks'[t].op = "initialize"
              /\ tasks'[t].began_ready ) =>
                LET tk == tasks'[t] IN
                /\ UNCHANGED adapter
                /\ tk.which = "unchecked"
                /\ tk.probes = 0 /\ tk.first_probe = "none" /\ tk.poll_i = 0
                /\ tk.spawned = 0 /\ tk.opened = 0 /\ tk.sessions = 0
                /\ tk.bridged = 0 /\ tk.resolved = "none"
                /\ tk.reqs = 0 /\ tk.bridge_calls = 0
                /\ tk.fault = None
                /\ tk.pc = "done" => tk.outcome = "returned" ]_vars

\* an initialize() call on a READY adapter in server mode has returned
C3_ReadyInitializeReturned ==
    \E t \in Tasks :
        /\ tasks[t].op = "initialize"
        /\ tasks[t].began_ready
        /\ Ended(t)
        /\ active_mode = "server"
        /\ session_id # NoId

\* ---------------------------------------------------------------------- C4
\* C4: once initialize() has completed the active mode never changes, and a
\* call drives its requests through one transport only (a failing server
\* request is not retried over the CLI).
C4_ModeFixedAfterInitialize ==
    [][ /\ initialized => active_mode' = active_mode
        /\ \A t \in Tasks : Cardinality(tasks'[t].via) <= 1 ]_vars

\* ---------------------------------------------------------------------- C5
\* C5: a subprocess call whose child never completes still ends: whenever a
\* call waits on a hung child and the event loop is idle, the timeout that
\* kills the child is due.  This is asked of both adapters' CLI drivers.
C5_HungChildTimesOut ==
    \A t \in Tasks :
        (tasks[t].pc = "cli_comm" /\ tasks[t].hangs /\ running = 0) =>
            ENABLED CliTimeout(t)

\* ---------------------------------------------------------------------- C6
\* C6: requested mode SERVER with the executable present.  A first probe that
\* succeeds spawns nothing; one that fails with autostart on spawns the server
\* once and waits for it; one that fails with autostart off fails the call,
\* spawning nothing, with an error naming the command that starts the server.
\* The mode resolves to SERVER only in a call that reached the server, and an
\* initialized adapter in SERVER mode has a client and a session.
C6_ServerModeResolution ==
    /\ \A t \in Tasks :
        (kind = "opencode" /\ mode = "server" /\ tasks[t].which = "found") =>
            LET tk == tasks[t] IN
            /\ tk.first_probe = "up" =>
                  tk.spawned = 0 /\ tk.resolved = "server" /\ tk.probes = 1
            /\ (tk.first_probe = "down" /\ server_autostart) =>
                  /\ tk.spawned = 1
                  /\ \/ tk.pc = "poll"
                     \/ tk.resolved = "server"
                     \/ tk.pc = "done" /\ tk.fault = ErrServerStart
            /\ (tk.first_probe = "down" /\ ~server_autostart) =>
                  /\ tk.pc = "done"
                  /\ tk.spawned = 0
                  /\ tk.resolved = "none"
                  /\ tk.fault = ErrServerNotRunning
                  /\ Contains(tk.fault, "Start with: opencode serve --port ")
                  /\ tk.fault[Len(tk.fault)] = "4096"
            /\ tk.resolved \in { "none", "server" }
            /\ tk.resolved = "server" => tk.reached
            /\ tk.phase = "run" => tk.resolved = "server" /\ tk.sessions = 1
    /\ (kind = "opencode" /\ mode = "server") =>
            /\ active_mode \in { "none", "server" }
            /\ server_process # NoId => server_autostart
            /\ (initialized /\ active_mode = "server") =>
                  http_client # NoId /\ session_id # NoId
            /\ initialized => active_mode = "server"

\* a call in server mode found no server, spawned one, waited through failed
\* probes and resolved to SERVER once the server answered
C6_SpawnedThenReached ==
    \E t \in Tasks :
        /\ mode = "server"
        /\ tasks[t].first_probe = "down"
        /\ tasks[t].spawned = 1
        /\ tasks[t].resolved = "server"
        /\ tasks[t].phase = "run"
        /\ procs[server_process] = "running"

\* ---------------------------------------------------------------------- C7
\* C7: requested mode CLI never probes the server.  Requested mode AUTO probes
\* exactly once and resolves to SERVER if the probe succeeded and to CLI if
\* not; it never probes again and never spawns.  Once AUTO has resolved to
\* CLI, generate() returns the child's standard output, trimmed.
C7_CliAndAutoResolution ==
    \A t \in Tasks :
        (kind = "opencode" /\ tasks[t].which = "found") =>
            LET tk == tasks[t] IN
            /\ mode = "cli" =>
                  /\ tk.probes = 0 /\ tk.first_probe = "none"
                  /\ tk.spawned = 0 /\ tk.opened = 0
                  /\ tk.resolved = "cli"
                  /\ active_mode = "cli"
            /\ mode = "auto" =>
                  /\ tk.spawned = 0 /\ tk.poll_i = 0
                  /\ tk.probes = IF tk.pc = "auto_probe" THEN 0 ELSE 1
                  /\ tk.first_probe = "none" => tk.resolved = "none"
                  /\ tk.first_probe = "up" => tk.resolved = "server"
                  /\ tk.first_probe = "down" => tk.resolved = "cli"
                  /\ (~overlap /\ tk.resolved # "none") => active_mode = tk.resolved
                  /\ ( /\ ~overlap /\ tk.resolved = "cli" /\ tk.op = "generate"
                       /\ tk.pc = "done" /\ tk.fault = None ) =>
                        /\ tk.via = { "cli" }
                        /\ tk.child = "exited" /\ tk.rc = 0
                        /\ tk.outcome = "returned"
                        /\ tk.value = Strip(tk.stdout)

\* generate() on an AUTO adapter whose one probe failed returned the child's
\* output without the white space around it
C7_AutoFellBackToCli ==
    \E t \in Tasks :
        /\ mode = "auto"
        /\ tasks[t].op = "generate"
        /\ tasks[t].first_probe = "down"
        /\ tasks[t].pc = "done"
        /\ tasks[t].stdout = << " ", "o", "k", "\n" >>
        /\ tasks[t].value = << "o", "k" >>

\* ---------------------------------------------------------------------- C8
\* C8: with the executable absent, initialization fails whatever the requested
\* mode, before any probe, spawn, client, session or bridge, with an error
\* that names the executable and where to install it from; the adapter stays
\* UNINITIALIZED (seen where no other call overlaps the failed one).
C8_MissingExecutableFailsFirst ==
    \A t \in Tasks :
        tasks[t].which = "absent" =>
            LET tk == tasks[t] IN
            /\ tk.pc = "done"
            /\ tk.phase = "init"
            /\ tk.probes = 0 /\ tk.first_probe = "none" /\ tk.spawned = 0
            /\ tk.opened = 0 /\ tk.sessions = 0 /\ tk.bridged = 0
            /\ tk.resolved = "none"
            /\ tk.reqs = 0 /\ tk.bridge_calls = 0
            /\ Contains(tk.fault, IF kind = "opencode" THEN "opencode" ELSE "claude")
            /\ \E i \in DOMAIN tk.fault :
                 tk.fault[i] \in
                    { "Install from: https://github.com/opencode-ai/opencode",
                      "Install from: https://github.com/anthropics/claude-code" }
            /\ IF tk.op = "execute_step" THEN tk.sr.error = tk.fault
               ELSE tk.outcome = "raised" /\ tk.error = tk.fault
            /\ ~overlap => ~initialized

\* an initialize() in server mode with autostart on failed on the missing
\* executable
C8_AbsentInServerMode ==
    \E t \in Tasks :
        /\ mode = "server" /\ server_autostart /\ mcp_config
        /\ tasks[t].op = "initialize"
        /\ tasks[t].which = "absent"
        /\ tasks[t].outcome = "raised"

\* ---------------------------------------------------------------------- C9
\* task t's call is a tool call: call_tool, or a step of a non-agent tool
IsToolCall(tk) ==
    \/ tk.op = "call_tool"
    \/ tk.op = "execute_step" /\ tk.tool # "agent"

\* C9: call_tool is answered by the MCP bridge exactly when a bridge is
\* configured and lists "<tool>.<operation>"; otherwise it makes exactly one
\* generate request, whose prompt names the tool, the operation and the
\* parameters.
C9_ToolCallRouting ==
    \A t \in Tasks :
        (IsToolCall(tasks[t]) /\ tasks[t].phase = "run") =>
            LET tk == tasks[t] IN
            IF mcp_config /\ << tk.tool, ".", tk.operation >> \in BridgeTools
            THEN /\ tk.via = { "bridge" }
                 /\ tk.bridge_calls = 1
                 /\ tk.reqs = 0
                 /\ (tk.pc = "done" /\ tk.fault = None) =>
                       BridgeResult \in { tk.value, tk.sr.output }
            ELSE /\ tk.bridge_calls = 0
                 /\ tk.reqs = 1
                 /\ tk.via \in { { "cli" }, { "server" } }
                 /\ Contains(tk.prompt, tk.tool)
                 /\ Contains(tk.prompt, tk.operation)
                 /\ Contains(tk.prompt, "{\n  \"")
                 /\ Contains(tk.prompt, tk.params[1])
                 /\ Contains(tk.prompt, tk.params[2])

\* both routes taken on one adapter with a bridge: files.read was answered by
\* the bridge
C9_BridgeAnswered ==
    \E t \in Tasks :
        /\ mcp_config
        /\ tasks[t].op = "call_tool"
        /\ tasks[t].operation = "read"
        /\ tasks[t].pc = "done"
        /\ tasks[t].value = BridgeResult

\* --------------------------------------------------------------------- C10
\* generate_stream() on an adapter in server mode, over every event stream of
\* up to MaxFrames lines
StreamCalls == { NoArgs("generate_stream") }

InitStream ==
    /\ Init
    /\ kind = "opencode"
    /\ mode = "server"
    /\ ~server_autostart
    /\ ~mcp_config
    /\ ~overlap

NextStream ==
    \/ \E t \in Tasks, c \in StreamCalls, found \in BOOLEAN : Begin(t, c, found)
    \/ \E t \in Tasks, answer \in BOOLEAN :
         \/ EnsureProbe(t, answer)
         \/ SessionPost(t, answer)
         \/ StreamPost(t, answer)
    \/ \E t \in Tasks :
         \/ InitBridge(t)
         \/ Dispatch(t)
         \/ StreamRead(t)
         \/ StreamBreaks(t)
         \/ StreamNext(t)
         \/ StreamAbandon(t)
         \/ StreamFinalize(t)
    \/ \E t \in Tasks :
         /\ tasks[t].pc = "stream_open"
         /\ \E a \in StreamAnswers, fs \in AllStreams : StreamOpen(t, a, fs)

SpecStream == InitStream /\ [][NextStream]_vars

\* the events the contract speaks of, read off the line itself
IsEvent(f)    == f.line = "data" /\ f.payload = "object"
IsDelta(f)    == IsEvent(f) /\ f.type = "message.part.delta" /\ f.delta # Absent
IsTextPart(f) ==
    IsEvent(f) /\ f.type = "message.part" /\ f.part_type = "text" /\ f.part_text # Absent
IsComplete(f) == IsEvent(f) /\ f.type = "message.complete"

\* the texts of the delta and text-part events before the first complete event
RECURSIVE ExpectedYield(_)
ExpectedYield(fs) ==
    IF fs = << >> THEN << >>
    ELSE IF IsComplete(Head(fs)) THEN << >>
    ELSE IF IsDelta(Head(fs)) THEN << Head(fs).delta >> \o ExpectedYield(Tail(fs))
    ELSE IF IsTextPart(Head(fs)) THEN << Head(fs).part_text >> \o ExpectedYield(Tail(fs))
    ELSE ExpectedYield(Tail(fs))

\* every data line of the stream that parses carries a JSON object
Envelopes(fs) == \A i \in DOMAIN fs : fs[i].payload # "scalar"

\* C10: generate_stream in server mode, served a stream whose data lines
\* carry event objects, yields exactly the texts of the delta events and of
\* the whole text-part events that precede the first message-complete event,
\* in order: at every moment what it has yielded is what the lines read so
\* far call for, it reads no line after the complete event, and when it ends
\* normally it has yielded all of them.
C10_StreamYieldsUntilComplete ==
    \A t \in Tasks :
        ( /\ tasks[t].op = "generate_stream"
          /\ "server" \in tasks[t].via
          /\ Envelopes(tasks[t].frames) ) =>
            LET tk == tasks[t]
                read == SubSeq(tk.frames, 1, tk.fpos)
            IN /\ tk.yielded = ExpectedYield(read)
               /\ \A i \in 1 .. tk.fpos :
                    IsComplete(tk.frames[i]) => i = tk.fpos /\ tk.pc = "done"
               /\ (tk.pc = "done" /\ tk.outcome = "returned") =>
                    /\ tk.yielded = ExpectedYield(tk.frames)
                    /\ tk.stream = "closed"
                    /\ \/ tk.fpos = Len(tk.frames)
                       \/ IsComplete(tk.frames[tk.fpos])

\* a stream with a delta on either side of the complete event ended normally
\* with the first delta only
C10_StoppedAtComplete ==
    \E t \in Tasks :
        /\ tasks[t].op = "generate_stream"
        /\ tasks[t].frames = << Delta(Hel), Complete, Delta(lo) >>
        /\ tasks[t].pc = "done"
        /\ tasks[t].outcome = "returned"
        /\ tasks[t].yielded = << Hel >>

\* --------------------------------------------------------------------- C11
\* C11: in CLI mode generate_stream yields exactly one item, the full result
\* of the non-streamed subprocess call for the same prompt (the child's
\* output, trimmed), and then ends; it spawns exactly one subprocess and
\* yields no fragment of the output.
C11_CliStreamYieldsOnce ==
    \A t \in Tasks :
        (tasks[t].op = "generate_stream" /\ "cli" \in tasks[t].via) =>
            LET tk == tasks[t] IN
            /\ tk.via = { "cli" }
            /\ tk.reqs = 1
            /\ tk.prompt = UserPrompt
            /\ Len(tk.yielded) <= 1
            /\ tk.pc \in { "cli_spawn", "cli_comm" } => tk.yielded = << >>
            /\ tk.yielded # << >> =>
                  /\ tk.child = "exited" /\ tk.rc = 0
                  /\ tk.yielded = << Strip(tk.stdout) >>
            /\ (tk.pc = "done" /\ tk.outcome = "returned") => Len(tk.yielded) = 1
            /\ tk.stdout = << " ", "o", "k", "\n" >> /\ tk.rc = 0 =>
                  tk.yielded = << << "o", "k" >> >>

\* a CLI-mode stream ended normally after its one item
C11_CliStreamEnded ==
    \E t \in Tasks :
        /\ tasks[t].op = "generate_stream"
        /\ tasks[t].via = { "cli" }
        /\ tasks[t].pc = "done"
        /\ tasks[t].outcome = "returned"
        /\ tasks[t].yielded = << << "o", "k" >> >>

\* --------------------------------------------------------------- C12, C13
\* analyze() over the texts a backend may print: JSON values bare, inside
\* prose, and inside a fenced code block with prose around it
Objects ==
    { << "{", "}" >>,
      << "{", "k:", "1", "}" >>,
      << "{", "\n", "k:", " ", "1", "\n", "}" >>,
      << "{", "k:", "{", "j:", "1", "}", "}" >>,
      << "{", "k:", "[", "1", "]", ",", "j:", "1", "}" >> }

Arrays ==
    { << "[", "1", ",", "1", "]" >>,
      << "[", "{", "k:", "1", "}", "]" >> }

\* an object with a string that quotes a code block
Quoting ==
    << "{", "k:", Quote, "<fence json>", "{", "p", "}", "<fence>", Quote, "}" >>

Strings ==
    { << "{", "k:", Quote, "p", " ", "p", Quote, "}" >>, Quoting }

Values == Objects \cup Arrays \cup { << "1" >> }

Broken == { << "{", "k:", "}" >>, << "{", "1", "}" >> }

Proses == { << >>, << "p" >>, << "p", " ", "{", "p", "}", "\n" >> }

Gaps == { << >>, << "\n" >> }

\* payload inside a code block tagged json, prose before and after
Fenced(before, gap, payload, after) ==
    before \o << "<fence json>" >> \o gap \o payload \o gap \o << "<fence>" >> \o after

AnalyzeTexts ==
    Values \cup Broken \cup { << "p", " ", "p" >> }
    \cup { before \o payload \o after :
             before \in Proses, after \in Proses, payload \in Values \cup Broken }
    \cup { Fenced(before, gap, payload, after) :
             before \in Proses, gap \in Gaps, payload \in Values \cup Broken,
             after \in Proses }
    \cup { Fenced(<< >>, << >>, bad, << "p" >>) \o Fenced(<< >>, << >>, good, << >>) :
             bad \in Broken, good \in Objects }
    \cup { before \o payload \o after :
             before \in { << >>, << "p", " " >> }, payload \in Strings,
             after \in { << >>, << "\n", "p" >> } }
    \cup { << "{", "k:", Quote, "p", "\n", Quote, "}" >>,
           << "{", "k:", Quote, "p", "}" >> }

AnalyzeOutcomes ==
    { ChildOutcome(0, text \o << "\n" >>, << >>) : text \in AnalyzeTexts }
    \cup { ChildOutcome(1, << >>, << "e", "\n" >>) }

AnalyzeCalls ==
    { [ op |-> "analyze", tool |-> "", operation |-> "", params |-> << >>,
        inputs |-> i ] : i \in { "plain", "schema" } }
    \cup
    { [ op |-> "execute_step", tool |-> "agent", operation |-> "analyze",
        params |-> << >>, inputs |-> i ] : i \in { "plain", "schema" } }

InitAnalyze ==
    /\ Init
    /\ mode = "cli"
    /\ ~mcp_config
    /\ ~overlap

NextAnalyze ==
    \/ \E t \in Tasks, c \in AnalyzeCalls, found \in BOOLEAN : Begin(t, c, found)
    \/ \E t \in Tasks :
         \/ InitBridge(t)
         \/ Dispatch(t)
         \/ CliSpawn(t)
         \/ CliTimeout(t)
         \/ CliReap(t)
    \/ \E t \in Tasks :
         /\ tasks[t].pc = "cli_comm"
         /\ \E c \in AnalyzeOutcomes : CliExits(t, c)

SpecAnalyze == InitAnalyze /\ [][NextAnalyze]_vars

\* what an ended call handed back: the step's output, or the returned value
Handed(tk) == IF tk.op = "execute_step" THEN tk.sr.output ELSE tk.value

\* the call of task tk was analyze() with a schema and its transport succeeded
Analyzed(tk, schema) ==
    /\ IsAnalyze(tk)
    /\ (tk.inputs = "schema") = schema
    /\ tk.pc = "done"
    /\ tk.child = "exited" /\ tk.rc = 0 /\ tk.fault # ErrTimeout

\* C12: whatever the schema, if the backend's text is the JSON of a
\* structured value (an object or an array, scalars aside) wrapped in a
\* fenced code block tagged json, with or without prose around the block,
\* analyze with the schema returns that very structure.
C12_FencedJsonRecovered ==
    \A t \in Tasks :
        Analyzed(tasks[t], TRUE) =>
            \A before \in Proses, after \in Proses, gap \in Gaps,
               v \in Objects \cup Arrays :
                Strip(tasks[t].stdout) = Strip(Fenced(before, gap, v, after)) =>
                    /\ tasks[t].fault = None
                    /\ Handed(tasks[t]) = Structure(v)

\* C13: normalization never fails the call.  With a schema, a text that no
\* extraction attempt can parse comes back unchanged; without a schema the
\* trimmed text of the transport comes back unchanged, even where it is JSON;
\* and no analyze call whose transport succeeded has raised.
C13_NormalizationNeverFails ==
    \A t \in Tasks :
        LET tk == tasks[t]
            text == Strip(tk.stdout)
        IN /\ Analyzed(tk, FALSE) =>
                tk.fault = None /\ Handed(tk) = text
           /\ Analyzed(tk, TRUE) =>
                /\ tk.fault = None
                /\ \/ Handed(tk) = text
                   \/ /\ Head(Handed(tk)) = "<parsed>"
                      /\ \/ Handed(tk) = Structure(text)
                         \/ \E i, j \in DOMAIN text :
                               Handed(tk) = Structure(SubSeq(text, i, j))
                /\ ( /\ ~ParseValue(text).ok
                     /\ \A i, j \in DOMAIN text :
                          (text[i] = "{" /\ text[j] = "}") =>
                              ~Loads(SubSeq(text, i, j)).ok ) =>
                        Handed(tk) = text
           /\ (IsAnalyze(tk) /\ tk.pc = "done" /\ tk.fault # None) =>
                \/ tk.child # "exited"
                \/ tk.rc # 0
                \/ tk.fault = ErrTimeout

\* analyze with a schema handed back, as it came, a fenced block whose
\* content is not JSON
C13_BrokenBlockReturnedRaw ==
    \E t \in Tasks :
        /\ Analyzed(tasks[t], TRUE)
        /\ tasks[t].op = "analyze"
        /\ tasks[t].stdout
             = Fenced(<< "p" >>, << "\n" >>, << "{", "k:", "}" >>, << >>) \o << "\n" >>
        /\ tasks[t].outcome = "returned"
        /\ tasks[t].value = Strip(tasks[t].stdout)

\* --------------------------------------------------------------------- C14
\* the call of task t is a cleanup() that has ended
CleanedUp(t) == tasks[t].op = "cleanup" /\ Ended(t)

\* C14: when the calls are awaited one after the other, a cleanup() that has
\* ended raised nothing of its own (only a failure of the bridge's own
\* cleanup may come out of it), the HTTP client, if any, is closed, the
\* bridge, if any, is closed once its cleanup returned, and no server
\* process the adapter spawned is still running.
C14_CleanupReleasesEverything ==
    ~overlap =>
        \A t \in Tasks :
            CleanedUp(t) =>
                /\ tasks[t].fault \in { None, ErrBridgeStop }
                /\ http_client # NoId => clients[http_client] = "closed"
                /\ (mcp_bridge # NoId /\ tasks[t].fault = None) =>
                        bridges[mcp_bridge] = "closed"
                /\ \A p \in Ids : procs[p] # "running"

\* --------------------------------------------------------------------- C15
\* steps run side by side (asyncio.gather) on an adapter that initialize()
\* has already brought up
ConcurrentSteps ==
    { [ op |-> "execute_step", tool |-> "agent", operation |-> "generate_report",
        params |-> << >>, inputs |-> "plain" ] }

\* the adapter as a successful initialize() leaves it: the first call of its
\* life made the client, the session, the server process and the bridge
InitConcurrent ==
    /\ kind \in { "opencode", "claude" }
    /\ mode \in IF kind = "opencode" THEN { "auto", "cli", "server" } ELSE { "cli" }
    /\ server_autostart \in IF kind = "opencode" THEN BOOLEAN ELSE { FALSE }
    /\ mcp_config \in BOOLEAN
    /\ initialized = TRUE
    /\ active_mode \in IF kind = "claude" THEN { "none" }
                       ELSE IF mode = "auto" THEN { "cli", "server" } ELSE { mode }
    /\ http_client = IF active_mode = "server" THEN 1 ELSE NoId
    /\ session_id = http_client
    /\ server_process \in IF active_mode = "server" /\ mode = "server" /\ server_autostart
                          THEN { NoId, 1 } ELSE { NoId }
    /\ mcp_bridge = IF mcp_config THEN 1 ELSE NoId
    /\ clients = [ i \in Ids |-> IF i = http_client THEN "open" ELSE "none" ]
    /\ procs = [ i \in Ids |-> IF i = server_process THEN "running" ELSE "none" ]
    /\ bridges = [ i \in Ids |-> IF i = mcp_bridge THEN "ready" ELSE "none" ]
    /\ overlap = TRUE
    /\ tasks = [ t \in Tasks |-> IdleTask ]
    /\ running = 0
    /\ calls = 0

NextConcurrent ==
    \/ \E t \in Tasks, c \in ConcurrentSteps, found \in BOOLEAN : Begin(t, c, found)
    \/ \E t \in Tasks :
         \/ Dispatch(t)
         \/ HttpPost(t)
         \/ CliSpawn(t)
         \/ CliExit(t)
         \/ CliTimeout(t)
         \/ CliReap(t)

SpecConcurrent == InitConcurrent /\ [][NextConcurrent]_vars

\* the adapter sends over its subprocess transport
CliActive == kind = "claude" \/ active_mode = "cli"

\* C15: steps overlapping on an initialized adapter.  Over the subprocess
\* transport every step spawns one child of its own and its result is made
\* of that child's exit code and output alone; over the server every step
\* sends to the adapter's one session, so any two steps use the same one.
C15_ConcurrentStepsShareOnlySession ==
    \A t \in Tasks :
        LET tk == tasks[t] IN
        /\ (CliActive /\ Ended(t)) =>
              /\ tk.via = { "cli" } /\ tk.reqs = 1
              /\ tk.child \in { "none", "exited" }
              /\ tk.child = "none" =>
                    tk.sr.status = "FAILED" /\ tk.sr.error = ErrSpawn
              /\ (tk.child = "exited" /\ tk.fault # ErrTimeout) =>
                    IF tk.rc = 0
                    THEN tk.sr.status = "COMPLETED" /\ tk.sr.output = Strip(tk.stdout)
                    ELSE /\ tk.sr.status = "FAILED"
                         /\ tk.sr.error = ErrCliFailed(kind, tk.rc, tk.stdout, tk.stderr)
        /\ CliActive => tk.session = NoId /\ tk.client = NoId
        /\ (~CliActive /\ "server" \in tk.via) =>
              /\ tk.session = session_id
              /\ \A u \in Tasks :
                    "server" \in tasks[u].via => tasks[u].session = tk.session

\* the step begun first is still waiting for its child when the step begun
\* after it has completed with its own child's output
C15_OverlappedCliSteps ==
    /\ CliActive
    /\ tasks[1].no = 1 /\ tasks[1].pc = "cli_comm" /\ tasks[1].child = "running"
    /\ tasks[2].no = 2 /\ Ended(2) /\ tasks[2].sr.status = "COMPLETED"
    /\ tasks[2].sr.output = Strip(tasks[2].stdout)

\* two steps are waiting for the server's answer at once, on one session
C15_OverlappedServerSteps ==
    /\ ~CliActive
    /\ \A t \in Tasks : tasks[t].pc = "http_post" /\ tasks[t].session = session_id

\* --------------------------------------------------------------------- C16
AgentOperations == { "analyze", "generate_response", "generate_report" }

\* the call of task tk is a step with an agent action execute_step does not know
UnknownStep(tk) ==
    tk.op = "execute_step" /\ tk.tool = "agent" /\ tk.operation \notin AgentOperations

\* C16: a step with an unknown agent operation fails alone.  Once the adapter
\* is initialized (lazily by the step itself, if it was not), the dispatch of
\* the step ends the call with a FAILED result that names the operation,
\* nothing was spawned or sent for it, and it leaves the initialized flag, the
\* active mode, the handles and everything they refer to as they were; on an
\* adapter that was already initialized no part of the call changes them.
C16_UnknownOperationFailsOnlyTheStep ==
    [][ \A t \in Tasks :
          /\ ( UnknownStep(tasks[t]) /\ tasks[t].pc = "dispatch"
               /\ tasks'[t] # tasks[t] ) =>
                 /\ tasks'[t].pc = "done"
                 /\ tasks'[t].outcome = "returned"
                 /\ tasks'[t].sr.status = "FAILED"
                 /\ tasks'[t].sr.error = ErrUnknownOp(tasks[t].operation)
                 /\ tasks'[t].reqs = 0 /\ tasks'[t].via = { }
                 /\ tasks'[t].child = "none" /\ tasks'[t].bridge_calls = 0
                 /\ UNCHANGED adapter
          /\ ( UnknownStep(tasks'[t]) /\ tasks'[t].began_ready
               /\ tasks'[t] # tasks[t] ) =>
                 /\ UNCHANGED adapter
                 /\ tasks'[t].reqs = 0 /\ tasks'[t].probes = 0
                 /\ tasks'[t].pc \in { "dispatch", "done" }
      ]_vars

\* on an adapter an earlier call initialized, a step with the operation
\* summarize has come back FAILED and the adapter is still initialized
C16_UnknownStepFailed ==
    \E t \in Tasks :
        /\ UnknownStep(tasks[t]) /\ Ended(t)
        /\ tasks[t].began_ready /\ tasks[t].no > 1
        /\ tasks[t].sr.status = "FAILED"
        /\ tasks[t].sr.error = ErrUnknownOp("summarize")
        /\ tasks[t].reqs = 0
        /\ initialized

\* --------------------------------------------------------------------- C17
Made(owners) == Cardinality({ i \in Ids : owners[i] # "none" })

\* C17: while no call has failed, calls overlapping on one adapter make at
\* most one server process, one HTTP client, one session and one bridge, and
\* the calls that went to the server all used one session.
C17_LazyInitializationHappensOnce ==
    (overlap /\ \A t \in Tasks : tasks[t].fault = None) =>
        /\ Made(procs) <= 1
        /\ Made(clients) <= 1
        /\ Made(bridges) <= 1
        /\ \A t \in Tasks, u \in Tasks :
              /\ t # u => tasks[t].sessions + tasks[u].sessions <= 1
              /\ (tasks[t].session # NoId /\ tasks[u].session # NoId) =>
                    tasks[t].session = tasks[u].session
              /\ (tasks[t].via # { } /\ tasks[u].via # { }) =>
                    tasks[t].via = tasks[u].via

\* --------------------------------------------------------------------- C18
\* C18: a call that went over the subprocess transport and has ended, with a
\* result or with a failure, has left no child behind: either no child was
\* ever started (create_subprocess_exec failed) or the child has exited and
\* was waited for; a call that ended with the timeout failure had its child
\* killed and waited for before the failure was raised.  While the child is
\* running or killed but not yet waited for, the call has not ended.
C18_ChildReapedBeforeTheCallEnds ==
    \A t \in Tasks :
        LET tk == tasks[t] IN
        /\ (Ended(t) /\ "cli" \in tk.via) =>
              /\ tk.child \in { "none", "exited" }
              /\ tk.child = "none" <=> tk.fault = ErrSpawn
              /\ tk.fault = ErrTimeout => tk.child = "exited"
        /\ tk.child \in { "running", "killed" } => tk.pc \in { "cli_comm", "cli_reap" }
        /\ tk.pc = "stream_yield" /\ "cli" \in tk.via => tk.child = "exited"

\* a call has ended with the timeout failure and its child has exited
C18_TimedOutChildReaped ==
    \E t \in Tasks :
        /\ Ended(t) /\ tasks[t].via = { "cli" }
        /\ tasks[t].fault = ErrTimeout
        /\ tasks[t].child = "exited"
        /\ tasks[t].outcome = "raised"

\* --------------------------------------------------------------------- C19
\* initialize() on an adapter that starts its own server, one call after the
\* other; every probe of the wait is answered within its own timeout and
\* every sleep returns, so a round that can be taken is taken
InitStartup ==
    /\ Init
    /\ kind = "opencode"
    /\ mode = "server"
    /\ server_autostart
    /\ ~overlap

PollRound == \E t \in Tasks, up \in BOOLEAN : Poll(t, up)

NextStartup ==
    \/ \E t \in Tasks, found \in BOOLEAN : Begin(t, NoArgs("initialize"), found)
    \/ \E t \in Tasks, answer \in BOOLEAN :
         \/ EnsureProbe(t, answer)
         \/ Poll(t, answer)
         \/ SessionPost(t, answer)
    \/ \E t \in Tasks :
         \/ InitBridge(t)
         \/ BridgeInit(t)
         \/ Dispatch(t)

SpecStartup == InitStartup /\ [][NextStartup]_vars /\ WF_vars(PollRound)

\* C19: the startup wait ends.  It is entered only after the server was
\* spawned, at round 0; a round whose probe succeeds ends the wait and the
\* call goes on to open its session; a round whose probe fails is followed
\* by the next round while fewer than StartupCeiling rounds were made, and
\* the last round raises "Failed to start OpenCode server" and leaves the
\* adapter uninitialized; so a call in the wait always leaves it.
C19_StartupWaitTerminates ==
    /\ [][ \A t \in Tasks :
             /\ ( tasks[t].pc = "poll" /\ tasks'[t] # tasks[t] ) =>
                  /\ tasks[t].poll_i < StartupCeiling
                  /\ \/ /\ tasks'[t].pc = "session_post"
                        /\ tasks'[t].reached
                     \/ /\ tasks'[t].pc = "poll"
                        /\ tasks'[t].poll_i = tasks[t].poll_i + 1
                        /\ tasks'[t].poll_i < StartupCeiling
                     \/ /\ tasks'[t].pc = "done"
                        /\ tasks[t].poll_i = StartupCeiling - 1
                        /\ tasks'[t].outcome = "raised"
                        /\ tasks'[t].error = ErrServerStart
                        /\ ~initialized'
             /\ ( tasks'[t].pc = "poll" /\ tasks[t].pc # "poll" ) =>
                  /\ tasks[t].pc = "ensure_probe"
                  /\ tasks'[t].poll_i = 0
                  /\ tasks'[t].spawned = 1
         ]_vars
    /\ \A t \in Tasks : (tasks[t].pc = "poll") ~> (tasks[t].pc # "poll")

\* the wait ran out: the call raised after the last round
C19_CeilingExhausted ==
    \E t \in Tasks :
        /\ Ended(t) /\ tasks[t].op = "initialize"
        /\ tasks[t].spawned = 1
        /\ tasks[t].outcome = "raised"
        /\ tasks[t].error = ErrServerStart
        /\ ~initialized

\* --------------------------------------------------------------------- C20
\* C20: once a cleanup() has returned the adapter is finished.  A call begun
\* after that makes no request of any kind (no probe, no client, no server
\* process, no bridge, nothing over a transport) and does not succeed, and
\* the adapter is not initialized while such a call runs or after it.
C20_CleanedUpIsTerminal ==
    \A t \in Tasks :
        LET tk == tasks[t] IN
        (tk.after_cleanup /\ tk.op # "cleanup") =>
            /\ tk.reqs = 0 /\ tk.via = { }
            /\ tk.probes = 0 /\ tk.opened = 0 /\ tk.spawned = 0 /\ tk.bridged = 0
            /\ Ended(t) => tk.fault # None
            /\ ~initialized

\* --------------------------------------------------------------------- C21
\* the event loop runs the aclose() it scheduled for a dropped generator
Finalization == \E t \in Tasks : StreamFinalize(t)

\* streaming calls on a running event loop
SpecStreamLive == InitStream /\ [][NextStream]_vars /\ WF_vars(Finalization)

Malformed(f) ==
    /\ f.line = "data"
    /\ \/ f.payload \in { "garbage", "scalar" }
       \/ f.type \notin { "message.part.delta", "message.part", "message.complete" }

\* C22: a malformed data line neither ends nor fails the stream.  Whatever
\* lines were read, the fragments yielded are those of the well-formed delta
\* and text-part events among them up to the complete event, no line that
\* was read has failed the call (only the connection can), and after a
\* malformed line the call goes on reading until the stream ends.
C22_MalformedFramesSkipped ==
    \A t \in Tasks :
        ( tasks[t].op = "generate_stream" /\ "server" \in tasks[t].via ) =>
            LET tk == tasks[t]
                read == SubSeq(tk.frames, 1, tk.fpos)
            IN /\ tk.yielded = ExpectedYield(read)
               /\ tk.fault \in { None, ErrHttp, ErrClientClosed }
               /\ ( tk.fpos > 0 /\ Malformed(tk.frames[tk.fpos]) ) =>
                     \/ tk.pc = "stream_read"
                     \/ tk.pc = "done" /\ tk.fault = ErrHttp
                     \/ /\ tk.pc = "done" /\ tk.outcome = "returned"
                        /\ tk.fpos = Len(tk.frames)

\* --------------------------------------------------------------------- C23
\* the texts, in order, of the parts whose type is "text"
RECURSIVE TextOfTextParts(_)
TextOfTextParts(parts) ==
    IF parts = << >> THEN << >>
    ELSE (IF Head(parts).type = "text" /\ Head(parts).has_text
          THEN Head(parts).text ELSE << >>)
         \o TextOfTextParts(Tail(parts))

\* the call of task tk got an answer to its POST /session/{id}/message
Answered(tk) ==
    /\ tk.pc = "done" /\ tk.via = { "server" } /\ tk.op # "generate_stream"
    /\ tk.fault \notin { ErrHttp, ErrClientClosed }

\* C23: what _execute_via_server returns for a response body: with a parts
\* list, the texts of the parts of type "text" joined in order and nothing
\* of the other parts; else the flat text; else the rendering of the body;
\* and no body makes the call fail.
C23_SendExtractsTextParts ==
    \A t \in Tasks :
        (Answered(tasks[t]) /\ ~IsAnalyze(tasks[t])) =>
            LET data == tasks[t].body IN
            /\ tasks[t].fault = None
            /\ Handed(tasks[t]) =
                  IF data.has_parts THEN TextOfTextParts(data.parts)
                  ELSE IF data.has_text THEN data.text
                  ELSE << "<str(data)>" >>

\* --------------------------------------------------------------------- C24
\* the four attempts made strictly in order, each failure falling through to
\* the next: the whole text, the fenced block, the brace-delimited substring,
\* the raw text
Ladder(text) ==
    LET b == FencedGroup(text)
        c == BraceGroup(text)
    IN IF Loads(text).ok THEN Loads(text).value
       ELSE IF b.found /\ Loads(b.group).ok THEN Loads(b.group).value
       ELSE IF c.found /\ Loads(c.group).ok THEN Loads(c.group).value
       ELSE text

\* C24: analyze with a schema returns what the four attempts give when each
\* failure falls through to the next; a text that is JSON as it stands comes
\* back as its structure, and a fenced block that does not parse leaves
\* the brace-delimited substring to be tried.
C24_ExtractionFallsThrough ==
    \A t \in Tasks :
        Analyzed(tasks[t], TRUE) =>
            LET text == Strip(tasks[t].stdout) IN
            /\ tasks[t].fault = None
            /\ Handed(tasks[t]) = Ladder(text)
            /\ Loads(text).ok => Handed(tasks[t]) = Structure(text)

\* --------------------------------------------------------------------- C25
\* the call of task tk went over the subprocess transport and its child has
\* exited on its own
ChildExited(tk) ==
    /\ tk.pc = "done" /\ tk.via = { "cli" } /\ tk.op # "generate_stream"
    /\ tk.child = "exited" /\ tk.fault # ErrTimeout

\* what the failure of task tk says: the error of the call or of the step
Failure(tk) == IF tk.op = "execute_step" THEN tk.sr.error ELSE tk.error

\* C25: a call over the subprocess transport hands back the child's trimmed
\* stdout exactly when the child exited with code 0; with any other code it
\* fails, never handing back stdout, and the failure carries the exit code,
\* the trimmed stdout and the trimmed stderr, each under its own heading.
C25_ExitCodeDecidesTheResult ==
    \A t \in Tasks :
        LET tk == tasks[t] IN
        ChildExited(tk) =>
            /\ tk.rc = 0 <=> tk.fault = None
            /\ tk.rc = 0 => Handed(tk) = Result(tk, Strip(tk.stdout))
            /\ tk.rc # 0 =>
                  /\ Handed(tk) = None
                  /\ Failure(tk) =
                        ErrCliFailed(kind, tk.rc, Strip(tk.stdout), Strip(tk.stderr))

\* --------------------------------------------------------------------- C26
\* the server processes the adapter spawned that are still running
Alive == { p \in Ids : procs[p] = "running" }

\* C26: with the calls made one after the other, whatever initialize
\* attempts failed or succeeded and whatever cleanups were made, at most one
\* spawned server process is running and it is the one self._server_process
\* refers to, and once a cleanup() has ended none is.
C26_OnlyTheReferencedServerIsAlive ==
    ~overlap =>
        /\ Cardinality(Alive) <= 1
        /\ \A p \in Alive : p = server_process
        /\ \A t \in Tasks : CleanedUp(t) => Alive = { }

\* --------------------------------------------------------------------- C27
\* C27: with the calls made one after the other, on an initialized
\* OpenCodeAdapter the active mode and the handles agree: the mode is
\* "server" exactly when an HTTP client and a session id are both held, the
\* mode "cli" holds neither, and no call has failed with "Server mode not
\* initialized".
C27_ModeAgreesWithHandles ==
    (~overlap /\ kind = "opencode") =>
        /\ initialized =>
              /\ active_mode \in { "cli", "server" }
              /\ active_mode = "server" <=> (http_client # NoId /\ session_id # NoId)
              /\ active_mode = "cli" => (http_client = NoId /\ session_id = NoId)
        /\ \A t \in Tasks : tasks[t].fault # ErrNotServerMode

====
